---------------------------- MODULE Spec2Model ----------------------------
(***************************************************************************)
(* A model of logger/logger.py: ColoredFormatter.format and getLogger,     *)
(* together with the parts of the logging facility and of the file system  *)
(* that getLogger drives (level lookup, the logger hierarchy, handler      *)
(* filtering, open(..., 'w')).                                             *)
(*                                                                         *)
(* Text that the code inspects character by character (level names that    *)
(* are upper-cased, path strings that are joined and normalised) is a      *)
(* sequence of one-character strings.  Text that is only concatenated      *)
(* (formatted records) is a TLA+ string.                                   *)
(***************************************************************************)
EXTENDS Integers, Sequences, FiniteSets, TLC

VARIABLES level, handlers, files, returned, nlogs, last, thr

vars == <<level, handlers, files, returned, nlogs, last, thr>>

----------------------------------------------------------------------------
(* Bounds *)

\* Number of log calls in one behaviour (bounds the length of the files).
MaxLogs == 1

----------------------------------------------------------------------------
(* Severity levels of the logging facility *)

NOTSET == 0
DEBUG == 10
INFO == 20
WARNING == 30
ERROR == 40
CRITICAL == 50
\* A level number the facility has no name for (logger.log(25, ...)).
CUSTOM == INFO + 5

FiveLevels == {DEBUG, INFO, WARNING, ERROR, CRITICAL}

\* logging.getLevelName: the record's levelname.
getLevelName(levelno) ==
    CASE levelno = DEBUG -> "DEBUG"
      [] levelno = INFO -> "INFO"
      [] levelno = WARNING -> "WARNING"
      [] levelno = ERROR -> "ERROR"
      [] levelno = CRITICAL -> "CRITICAL"
      [] levelno = NOTSET -> "NOTSET"
      [] OTHER -> "Level " \o ToString(levelno)

----------------------------------------------------------------------------
(* Character strings *)

LowerLetters ==
    <<"a","b","c","d","e","f","g","h","i","j","k","l","m",
      "n","o","p","q","r","s","t","u","v","w","x","y","z">>
UpperLetters ==
    <<"A","B","C","D","E","F","G","H","I","J","K","L","M",
      "N","O","P","Q","R","S","T","U","V","W","X","Y","Z">>

\* The upper-case letter of each lower-case letter.
UpperTable ==
    [c \in {LowerLetters[i] : i \in 1..26} |->
        UpperLetters[CHOOSE i \in 1..26 : LowerLetters[i] = c]]

UpperChar(c) == IF c \in DOMAIN UpperTable THEN UpperTable[c] ELSE c

\* str.upper()
upper(s) == [i \in 1..Len(s) |-> UpperChar(s[i])]

S_DEBUG == <<"D","E","B","U","G">>
S_INFO == <<"I","N","F","O">>
S_WARNING == <<"W","A","R","N","I","N","G">>
S_WARN == <<"W","A","R","N">>
S_ERROR == <<"E","R","R","O","R">>
S_CRITICAL == <<"C","R","I","T","I","C","A","L">>
S_FATAL == <<"F","A","T","A","L">>
S_NOTSET == <<"N","O","T","S","E","T">>
S_debug == <<"d","e","b","u","g">>
S_Warning == <<"W","a","r","n","i","n","g">>
S_error == <<"e","r","r","o","r">>
S_NOTALEVEL == <<"N","O","T","A","L","E","V","E","L">>
S_empty == <<>>
S_dot == <<".">>
S_app_log == <<"a","p","p",".","l","o","g">>
S_b_log == <<"b",".","l","o","g">>
S_nodir == <<"n","o","d","i","r">>

\* logging._nameToLevel
nameToLevel(s) ==
    CASE s = S_CRITICAL -> CRITICAL
      [] s = S_FATAL -> CRITICAL
      [] s = S_ERROR -> ERROR
      [] s = S_WARN -> WARNING
      [] s = S_WARNING -> WARNING
      [] s = S_INFO -> INFO
      [] s = S_DEBUG -> DEBUG
      [] s = S_NOTSET -> NOTSET

LevelNames ==
    {S_CRITICAL, S_FATAL, S_ERROR, S_WARN, S_WARNING, S_INFO, S_DEBUG, S_NOTSET}

\* Handler.setLevel(str) -> logging._checkLevel: the level, or ValueError.
checkLevelRaises(s) == s \notin LevelNames

----------------------------------------------------------------------------
(* Paths and the file system *)

\* os.path.join(a, b) for a relative b.
path_join(a, b) ==
    IF a = <<>> THEN b
    ELSE IF a[Len(a)] = "/" THEN a \o b
    ELSE a \o <<"/">> \o b

RECURSIVE SplitAt(_, _, _)
\* The "/"-separated components of s; cur is the component being read.
SplitAt(s, i, cur) ==
    IF i > Len(s) THEN <<cur>>
    ELSE IF s[i] = "/" THEN <<cur>> \o SplitAt(s, i + 1, <<>>)
    ELSE SplitAt(s, i + 1, Append(cur, s[i]))

RECURSIVE DropEmpty(_)
DropEmpty(cs) ==
    IF cs = <<>> THEN <<>>
    ELSE IF Head(cs) = <<>> \/ Head(cs) = S_dot THEN DropEmpty(Tail(cs))
    ELSE <<Head(cs)>> \o DropEmpty(Tail(cs))

\* os.path.abspath(filename), as FileHandler.__init__ applies it: the
\* components below the working directory, "" and "." dropped.  The empty
\* sequence is the working directory itself.
abspath(s) == DropEmpty(SplitAt(s, 1, <<>>))

\* The directories that exist: the working directory only.
Directories == {<<>>}

\* open(path, 'w') raises OSError: the path is a directory, or its parent
\* directory does not exist.
openRaises(p) ==
    \/ p \in Directories
    \/ SubSeq(p, 1, Len(p) - 1) \notin Directories

\* open(path, 'w'): the file is created, or truncated when it exists.
openTruncate(fs, p) == [q \in DOMAIN fs \cup {p} |-> IF q = p THEN <<>> ELSE fs[q]]

----------------------------------------------------------------------------
(* Loggers, handlers and records of the logging facility *)

\* A logger name is the sequence of its dot-separated components; the root
\* logger is the empty sequence.
ROOT == <<>>
LOGGER_A == <<"a">>
LOGGER_A_B == <<"a", "b">>
Names == {LOGGER_A, LOGGER_A_B}
AllLoggers == Names \cup {ROOT}

\* The dotted name as text.
NameText(name) ==
    CASE name = ROOT -> "root"
      [] name = LOGGER_A -> "a"
      [] name = LOGGER_A_B -> "a.b"

NoPath == <<"<none>">>

\* The logger and its ancestors, nearest first: the order Logger.callHandlers
\* and Logger.hasHandlers walk (every logger propagates).
Chain(name) == [i \in 1..(Len(name) + 1) |-> SubSeq(name, 1, Len(name) + 1 - i)]

\* Logger.hasHandlers(): the logger or one of its ancestors has a handler.
hasHandlers(hs, name) ==
    \E i \in 1..(Len(name) + 1) : hs[Chain(name)[i]] # <<>>

\* Logger.getEffectiveLevel(): the first level set on the way to the root.
getEffectiveLevel(lv, name) ==
    IF \E i \in 1..(Len(name) + 1) : lv[Chain(name)[i]] # NOTSET
    THEN lv[Chain(name)[CHOOSE i \in 1..(Len(name) + 1) :
                /\ lv[Chain(name)[i]] # NOTSET
                /\ \A j \in 1..(i - 1) : lv[Chain(name)[j]] = NOTSET]]
    ELSE NOTSET

\* The handler logging.basicConfig() leaves on the root logger.
BasicConfigHandler ==
    [kind |-> "stream", level |-> NOTSET, formatter |-> "basic",
     path |-> NoPath, pos |-> 0]

----------------------------------------------------------------------------
(* ColoredFormatter *)

RESET == "\\033[0m"

COLORS_has(levelno) == levelno \in FiveLevels

COLORS(levelno) ==
    CASE levelno = DEBUG -> "\\033[95m"
      [] levelno = INFO -> "\\033[97m"
      [] levelno = WARNING -> "\\033[93m"
      [] levelno = ERROR -> "\\033[91m"
      [] levelno = CRITICAL -> "\\033[91m"

\* A mutant of COLORS_get: a missing level has no colour at all.
COLORS_get_NoFallback(levelno, default) ==
    IF COLORS_has(levelno) THEN COLORS(levelno) ELSE ""

\* dict.get(key, default)
COLORS_get(levelno, default) ==
    IF COLORS_has(levelno) THEN COLORS(levelno) ELSE default

\* logging.Formatter('{levelname} - {message}', style='{').format(record)
Formatter_format(record) ==
    getLevelName(record.levelno) \o " - " \o record.msg

ColoredFormatter_format(record) ==
    LET color == COLORS_get(record.levelno, RESET)
        message == Formatter_format(record)
    IN  color \o message \o RESET

\* logging.BASIC_FORMAT, '%(levelname)s:%(name)s:%(message)s'
BasicFormat(record) ==
    getLevelName(record.levelno) \o ":" \o NameText(record.name) \o ":" \o record.msg

Format(h, record) ==
    CASE h.formatter = "colored" -> ColoredFormatter_format(record)
      [] h.formatter = "plain" -> Formatter_format(record)
      [] h.formatter = "basic" -> BasicFormat(record)

----------------------------------------------------------------------------
(* The process environment *)

\* The value of a variable that is not in os.environ.
Unset == <<"<unset>">>

\* os.environ.get(key, default): a mutation that also defaults the empty string.
environ_get_EmptyIsUnset(e, key, default) ==
    IF e[key] = Unset \/ e[key] = S_empty THEN default ELSE e[key]

\* os.environ.get(key, default)
environ_get(e, key, default) ==
    IF e[key] = Unset THEN default ELSE e[key]

Env(cl, fl, d, n) ==
    [CONSOLE_LOG_LEVEL |-> cl, FILE_LOG_LEVEL |-> fl,
     LOG_FILE_DIR |-> d, LOG_FILE_NAME |-> n]

NoEnv == Env(Unset, Unset, Unset, Unset)

\* Lines 41-44: what getLogger reads from the environment.
ReadEnv(e) ==
    [console_log_level |-> upper(environ_get(e, "CONSOLE_LOG_LEVEL", S_INFO)),
     file_log_level |-> upper(environ_get(e, "FILE_LOG_LEVEL", S_DEBUG)),
     log_file_dir |-> environ_get(e, "LOG_FILE_DIR", S_dot),
     log_file_name |-> environ_get(e, "LOG_FILE_NAME", S_app_log)]

----------------------------------------------------------------------------
(* getLogger *)

NoHandler ==
    [kind |-> "none", level |-> NOTSET, formatter |-> "none",
     path |-> NoPath, pos |-> 0]

\* Line 51-54: the console handler.
ConsoleHandler(cfg) ==
    [kind |-> "stream", level |-> nameToLevel(cfg.console_log_level),
     formatter |-> "colored", path |-> NoPath, pos |-> 0]

\* Lines 57-60: the file handler, on the file just opened.
FileHandler(cfg, p) ==
    [kind |-> "file", level |-> nameToLevel(cfg.file_log_level),
     formatter |-> "plain", path |-> p, pos |-> 0]

Raised(what, fs, p, ch) ==
    [outcome |-> what, files |-> fs, opened |-> p,
     console_handler |-> ch, file_handler |-> NoHandler]

\* A mutation of Construct: the file is opened before the console level is
\* checked.
Construct_FileFirst(cfg, fs) ==
    LET p == abspath(path_join(cfg.log_file_dir, cfg.log_file_name))
    IN  IF openRaises(p) THEN Raised("OSError", fs, NoPath, NoHandler)
        ELSE IF checkLevelRaises(cfg.console_log_level)
        THEN Raised("ValueError", openTruncate(fs, p), p, NoHandler)
        ELSE IF checkLevelRaises(cfg.file_log_level)
        THEN Raised("ValueError", openTruncate(fs, p), p, ConsoleHandler(cfg))
        ELSE [outcome |-> "ok", files |-> openTruncate(fs, p), opened |-> p,
              console_handler |-> ConsoleHandler(cfg),
              file_handler |-> FileHandler(cfg, p)]

\* A mutation of Construct: a level that is not known falls back to the
\* default instead of raising.
Construct_SilentDefault(cfg, fs) ==
    LET p == abspath(path_join(cfg.log_file_dir, cfg.log_file_name))
        c == [cfg EXCEPT
                !.console_log_level = IF checkLevelRaises(@) THEN S_INFO ELSE @,
                !.file_log_level = IF checkLevelRaises(@) THEN S_DEBUG ELSE @]
    IN  IF openRaises(p) THEN Raised("OSError", fs, NoPath, ConsoleHandler(c))
        ELSE [outcome |-> "ok", files |-> openTruncate(fs, p), opened |-> p,
              console_handler |-> ConsoleHandler(c),
              file_handler |-> FileHandler(c, p)]

\* Lines 50-60: both handlers are constructed, in this order: the console
\* level is checked (52), the file is opened for writing (57), the file
\* level is checked (58).  The first failure raises to the caller.
Construct(cfg, fs) ==
    LET p == abspath(path_join(cfg.log_file_dir, cfg.log_file_name))
    IN  IF checkLevelRaises(cfg.console_log_level)
        THEN Raised("ValueError", fs, NoPath, NoHandler)
        ELSE IF openRaises(p)
        THEN Raised("OSError", fs, NoPath, ConsoleHandler(cfg))
        ELSE IF checkLevelRaises(cfg.file_log_level)
        THEN Raised("ValueError", openTruncate(fs, p), p, ConsoleHandler(cfg))
        ELSE [outcome |-> "ok", files |-> openTruncate(fs, p), opened |-> p,
              console_handler |-> ConsoleHandler(cfg),
              file_handler |-> FileHandler(cfg, p)]

\* Logger.addHandler
addHandler(hs, name, h) == [hs EXCEPT ![name] = Append(@, h)]

\* A mutation of Attach: the console handler is attached as soon as it is
\* constructed, before the file handler exists.
Attach_ConsoleEarly(hs, name, c) ==
    IF hasHandlers(hs, name) THEN hs
    ELSE IF c.outcome = "ok"
    THEN addHandler(addHandler(hs, name, c.console_handler), name, c.file_handler)
    ELSE IF c.console_handler # NoHandler
    THEN addHandler(hs, name, c.console_handler)
    ELSE hs

\* A mutation of Attach: a repeat call replaces the logger's handlers by the
\* new ones.
Attach_Reconfigure(hs, name, c) ==
    IF c.outcome = "ok"
    THEN [hs EXCEPT ![name] = <<c.console_handler, c.file_handler>>]
    ELSE hs

\* Lines 63-65, reached only when nothing raised: the handlers are added
\* unless the logger or an ancestor already has some.
Attach(hs, name, c) ==
    IF c.outcome = "ok" /\ ~hasHandlers(hs, name)
    THEN addHandler(addHandler(hs, name, c.console_handler), name, c.file_handler)
    ELSE hs

\* A mutation of LoggerThreshold: the logger is set to WARNING.
LoggerThreshold_Warning == WARNING

\* Line 48: logger.setLevel(logging.DEBUG)
LoggerThreshold == DEBUG

NoRecord == [name |-> ROOT, levelno |-> NOTSET, msg |-> ""]

\* What the last operation was and what it did.
CallResult(name, e, c, first, had) ==
    [op |-> "getLogger", name |-> name, env |-> e, outcome |-> c.outcome,
     first |-> first, had |-> had, opened |-> c.opened,
     console_handler |-> c.console_handler, file_handler |-> c.file_handler,
     record |-> NoRecord, console |-> <<>>, written |-> <<>>]

\* getLogger(name) under the environment e, lines 41-67.
GetLogger(name, e) ==
    \E c \in {Construct(ReadEnv(e), files)} :
        /\ level' = [level EXCEPT ![name] = LoggerThreshold]
        /\ files' = c.files
        /\ handlers' = Attach(handlers, name, c)
        /\ returned' = IF c.outcome = "ok" THEN returned \cup {name} ELSE returned
        /\ last' = CallResult(name, e, c, name \notin returned,
                              hasHandlers(handlers, name))
        /\ UNCHANGED <<nlogs, thr>>

----------------------------------------------------------------------------
(* Logging a record: Logger.log -> Logger.handle -> Logger.callHandlers *)

\* What a write leaves where the file had no bytes yet.
HOLE == "\\0"

\* A write of one line at the stream's own position: the handlers open the
\* file with mode 'w', not 'a', so each stream keeps its own offset.
WriteAt(content, pos, line) ==
    LET n == IF Len(content) > pos + 1 THEN Len(content) ELSE pos + 1
    IN  [i \in 1..n |-> IF i = pos + 1 THEN line
                        ELSE IF i <= Len(content) THEN content[i]
                        ELSE HOLE]

RECURSIVE HandlerRefs(_, _, _)
\* The handlers callHandlers visits, as <<logger, index>>, in its order.
HandlerRefs(hs, chain, i) ==
    IF i > Len(chain) THEN <<>>
    ELSE [k \in 1..Len(hs[chain[i]]) |-> <<chain[i], k>>]
         \o HandlerRefs(hs, chain, i + 1)

RECURSIVE Deliver(_, _, _)
\* Handler.handle for each visited handler whose level admits the record:
\* a stream handler writes the formatted line to the console, a file handler
\* writes it to its file and flushes.
Deliver(refs, record, st) ==
    IF refs = <<>> THEN st
    ELSE LET r == Head(refs)
             h == st.handlers[r[1]][r[2]]
             line == Format(h, record) \o "\n"
         IN  IF record.levelno < h.level
             THEN Deliver(Tail(refs), record, st)
             ELSE IF h.kind = "stream"
             THEN Deliver(Tail(refs), record,
                          [st EXCEPT !.console =
                              Append(@, [by |-> r[1], line |-> line])])
             ELSE Deliver(Tail(refs), record,
                    [st EXCEPT
                       !.files[h.path] = WriteAt(@, h.pos, line),
                       !.handlers[r[1]][r[2]].pos = h.pos + 1,
                       !.written =
                          Append(@, [by |-> r[1], path |-> h.path, line |-> line])])

\* Logger.isEnabledFor(levelno)
isEnabledFor(lv, name, levelno) == levelno >= getEffectiveLevel(lv, name)

LogResult(record, st) ==
    [op |-> "log", name |-> record.name, env |-> NoEnv, outcome |-> "ok",
     first |-> FALSE, had |-> TRUE, opened |-> NoPath,
     console_handler |-> NoHandler, file_handler |-> NoHandler,
     record |-> record, console |-> st.console, written |-> st.written]

\* logger.log(levelno, msg) on a logger getLogger returned.
Emit(name, levelno, msg) ==
    LET record == [name |-> name, levelno |-> levelno, msg |-> msg]
        st0 == [handlers |-> handlers, files |-> files,
                console |-> <<>>, written |-> <<>>]
    IN  /\ name \in returned
        /\ nlogs < MaxLogs
        /\ \E st \in {IF isEnabledFor(level, name, levelno)
                       THEN Deliver(HandlerRefs(handlers, Chain(name), 1),
                                    record, st0)
                       ELSE st0} :
              /\ nlogs' = nlogs + 1
              /\ handlers' = st.handlers
              /\ files' = st.files
              /\ last' = LogResult(record, st)
        /\ UNCHANGED <<level, returned, thr>>

----------------------------------------------------------------------------
(* Sequential use: the state of a process before its first getLogger call *)

Threads == {1, 2}

\* A thread that has not called getLogger yet.
IdleThread ==
    [pc |-> "idle", name |-> ROOT, saw |-> FALSE, opened |-> NoPath,
     console_handler |-> NoHandler, file_handler |-> NoHandler]

NoCall ==
    [op |-> "none", name |-> ROOT, env |-> NoEnv, outcome |-> "none",
     first |-> FALSE, had |-> FALSE, opened |-> NoPath,
     console_handler |-> NoHandler, file_handler |-> NoHandler,
     record |-> NoRecord, console |-> <<>>, written |-> <<>>]

\* The log file may be there from an earlier run; the application may have
\* called logging.basicConfig() before.
Init ==
    /\ level = [n \in AllLoggers |-> IF n = ROOT THEN WARNING ELSE NOTSET]
    /\ handlers \in {[n \in AllLoggers |-> <<>>],
                     [n \in AllLoggers |->
                        IF n = ROOT THEN <<BasicConfigHandler>> ELSE <<>>]}
    /\ files \in {[p \in {} |-> <<>>],
                  [p \in {<<S_app_log>>} |-> <<"old\n">>]}
    /\ returned = {}
    /\ nlogs = 0
    /\ last = NoCall
    /\ thr = [t \in Threads |-> IdleThread]

RecordLevels == FiveLevels \cup {CUSTOM}

Messages == {"m"}

LevelEnvs ==
    {Env(cl, fl, Unset, Unset) :
        cl \in {S_debug, Unset, S_Warning, S_ERROR, S_CRITICAL},
        fl \in {Unset, S_INFO, S_WARNING, S_error, S_CRITICAL}}

\* The calls of the specification Spec: the logger a.b under every pair of
\* levels, its parent a under two.
LevelCalls ==
    {<<LOGGER_A_B, e>> : e \in LevelEnvs}
    \cup {<<LOGGER_A, Env(cl, Unset, Unset, Unset)>> : cl \in {Unset, S_ERROR}}

CallSome(calls) == \E c \in calls : GetLogger(c[1], c[2])

EmitSome == \E n \in Names, l \in RecordLevels, m \in Messages : Emit(n, l, m)

Next == CallSome(LevelCalls) \/ EmitSome

Spec == Init /\ [][Next]_vars

\* The environments of SpecConfig: the defaults; another valid console level,
\* file level and file name, one at a time and together; a level that is no
\* level, for the console and for the file; a directory that does not exist,
\* alone and together with either bad level.
ConfigEnvs ==
    {NoEnv,
     Env(S_error, Unset, Unset, Unset),
     Env(Unset, S_CRITICAL, Unset, Unset),
     Env(Unset, Unset, Unset, S_b_log),
     Env(S_error, S_CRITICAL, Unset, S_b_log),
     Env(S_NOTALEVEL, Unset, Unset, Unset),
     Env(Unset, S_NOTALEVEL, Unset, Unset),
     Env(Unset, Unset, S_nodir, Unset),
     Env(S_NOTALEVEL, Unset, S_nodir, Unset),
     Env(Unset, S_NOTALEVEL, S_nodir, Unset)}

ConfigCalls == Names \X ConfigEnvs

NextConfig == CallSome(ConfigCalls) \/ EmitSome

SpecConfig == Init /\ [][NextConfig]_vars

\* The calls of SpecDefaults: one logger, each variable absent, empty, or set
\* to a valid value.
DefaultsEnvs ==
    {Env(cl, fl, d, n) :
        cl \in {Unset, S_empty, S_error},
        fl \in {Unset, S_empty, S_CRITICAL},
        d \in {Unset, S_empty, S_dot},
        n \in {Unset, S_empty, S_b_log}}

DefaultsCalls == {LOGGER_A} \X DefaultsEnvs

NextDefaults == CallSome(DefaultsCalls) \/ EmitSome

SpecDefaults == Init /\ [][NextDefaults]_vars

----------------------------------------------------------------------------
(* Concurrent use: two threads, each calling getLogger once *)

\* A mutation of CheckAllowed: a lock around lines 63-65.
CheckAllowed_Locked(t) ==
    \A u \in Threads \ {t} : thr[u].pc \notin {"add_console", "add_file"}

\* Lines 63-65 are not guarded: a thread may evaluate hasHandlers() whatever
\* the other threads do.
CheckAllowed(t) == TRUE

\* Lines 41-60 in thread t.
T_Construct(t, name, e) ==
    /\ thr[t].pc = "idle"
    /\ \E c \in {Construct(ReadEnv(e), files)} :
          /\ level' = [level EXCEPT ![name] = LoggerThreshold]
          /\ files' = c.files
          /\ thr' = [thr EXCEPT ![t] =
                [pc |-> IF c.outcome = "ok" THEN "check" ELSE "raised",
                 name |-> name, saw |-> FALSE, opened |-> c.opened,
                 console_handler |-> c.console_handler,
                 file_handler |-> c.file_handler]]
    /\ UNCHANGED <<handlers, returned, nlogs, last>>

\* Line 63 in thread t.
T_Check(t) ==
    /\ thr[t].pc = "check"
    /\ CheckAllowed(t)
    /\ thr' = [thr EXCEPT
                 ![t].saw = hasHandlers(handlers, thr[t].name),
                 ![t].pc = IF hasHandlers(handlers, thr[t].name)
                           THEN "return" ELSE "add_console"]
    /\ UNCHANGED <<level, handlers, files, returned, nlogs, last>>

\* Line 64 in thread t.
T_AddConsole(t) ==
    /\ thr[t].pc = "add_console"
    /\ handlers' = addHandler(handlers, thr[t].name, thr[t].console_handler)
    /\ thr' = [thr EXCEPT ![t].pc = "add_file"]
    /\ UNCHANGED <<level, files, returned, nlogs, last>>

\* Line 65 in thread t.
T_AddFile(t) ==
    /\ thr[t].pc = "add_file"
    /\ handlers' = addHandler(handlers, thr[t].name, thr[t].file_handler)
    /\ thr' = [thr EXCEPT ![t].pc = "return"]
    /\ UNCHANGED <<level, files, returned, nlogs, last>>

\* Line 67 in thread t.
T_Return(t) ==
    /\ thr[t].pc = "return"
    /\ returned' = returned \cup {thr[t].name}
    /\ thr' = [thr EXCEPT ![t].pc = "done"]
    /\ UNCHANGED <<level, handlers, files, nlogs, last>>

ThreadEnvs ==
    {NoEnv, Env(S_NOTALEVEL, Unset, Unset, Unset), Env(Unset, Unset, Unset, S_b_log)}

NextThreads ==
    \E t \in Threads :
        \/ \E n \in Names, e \in ThreadEnvs : T_Construct(t, n, e)
        \/ T_Check(t)
        \/ T_AddConsole(t)
        \/ T_AddFile(t)
        \/ T_Return(t)

SpecThreads == Init /\ [][NextThreads]_vars

----------------------------------------------------------------------------
(* Properties of Spec *)

\* The proper ancestors of a logger (the root included) have no handler.
NoAncestorHandlers(hs, name) ==
    \A i \in 2..(Len(name) + 1) : hs[Chain(name)[i]] = <<>>

\* The handlers of the given kind a record logged on name can reach.
SinksOnChain(hs, name, kind) ==
    {r \in {<<n, k>> : n \in AllLoggers, k \in 1..2} :
        /\ \E i \in 1..(Len(name) + 1) : Chain(name)[i] = r[1]
        /\ r[2] <= Len(hs[r[1]])
        /\ hs[r[1]][r[2]].kind = kind}

\* This step is a log call of one of the five severities.
LogStep == nlogs' = nlogs + 1 /\ last'.record.levelno \in FiveLevels

\* This step is a log call on the logger that the preceding step obtained
\* from getLogger for the first time.
LogAfterFirstCall ==
    /\ LogStep
    /\ last.op = "getLogger" /\ last.outcome = "ok" /\ last.first
    /\ last'.name = last.name

C7_Prefix(levelno) ==
    CASE levelno = 10 -> "\\033[95m"
      [] levelno = 20 -> "\\033[97m"
      [] levelno = 30 -> "\\033[93m"
      [] levelno = 40 -> "\\033[91m"
      [] levelno = 50 -> "\\033[91m"
      [] OTHER -> "\\033[0m"

\* The lines the handlers with a ColoredFormatter wrote for the last record.
ColoredLines == SelectSeq(last.console, LAMBDA w : w.by # ROOT)

\* C7: what ColoredFormatter.format returns for a record is the prefix of
\* the record's level (the reset code when the level has none), the plain
\* '{levelname} - {message}' text, and the reset code.
C7_PrefixPlainReset ==
    last.op = "log" =>
        \A i \in 1..Len(ColoredLines) :
            ColoredLines[i].line =
                C7_Prefix(last.record.levelno)
                \o getLevelName(last.record.levelno) \o " - " \o last.record.msg
                \o "\\033[0m" \o "\n"

\* A record of a level without a table entry was formatted for the console.
C7_Witness ==
    /\ last.op = "log" /\ last.record.levelno \notin FiveLevels
    /\ ColoredLines # <<>>

----------------------------------------------------------------------------
(* Properties of SpecConfig *)

\* This step is a getLogger call (a log call always counts in nlogs).
CallStep == last'.op = "getLogger" /\ nlogs' = nlogs

CountKind(hseq, kind) ==
    Cardinality({k \in 1..Len(hseq) : hseq[k].kind = kind})

\* C1, as stated: every logger getLogger returned has exactly one console
\* sink and exactly one file sink attached to it.
C1_ExactlyOneOfEach ==
    \A n \in returned :
        /\ CountKind(handlers[n], "stream") = 1
        /\ CountKind(handlers[n], "file") = 1

\* C2, as stated: a getLogger call for a name whose logger already has sinks
\* leaves every line of the logger's log file in place.
C2_RepeatCallKeepsFile ==
    [][(CallStep /\ handlers[last'.name] # <<>>) =>
        \A k \in 1..Len(handlers[last'.name]) :
            handlers[last'.name][k].kind = "file" =>
                files'[handlers[last'.name][k].path]
                    = files[handlers[last'.name][k].path]]_vars

\* The level string getLogger resolves for a variable.
LevelString(e, key, default) ==
    upper(IF e[key] = Unset THEN default ELSE e[key])

\* The path getLogger opens.
LogPath(e) ==
    abspath(path_join(IF e.LOG_FILE_DIR = Unset THEN S_dot ELSE e.LOG_FILE_DIR,
                      IF e.LOG_FILE_NAME = Unset THEN S_app_log
                      ELSE e.LOG_FILE_NAME))

BadConsoleLevel(e) == LevelString(e, "CONSOLE_LOG_LEVEL", S_INFO) \notin LevelNames
BadFileLevel(e) == LevelString(e, "FILE_LOG_LEVEL", S_DEBUG) \notin LevelNames
BadPath(e) == openRaises(LogPath(e))

\* C4: a getLogger call, first or repeat, under a console or file level
\* that is no known level, or a log file that cannot be opened, raises to its
\* caller and returns no logger.
C4_FailsAtCallTime ==
    (/\ last.op = "getLogger"
     /\ BadConsoleLevel(last.env) \/ BadFileLevel(last.env) \/ BadPath(last.env))
    => last.outcome \in {"ValueError", "OSError"}

\* A repeat call for a logger that has its sinks raised on a bad level.
C4_Witness ==
    /\ last.op = "getLogger" /\ ~last.first /\ last.had
    /\ handlers[last.name] # <<>>
    /\ BadFileLevel(last.env) /\ ~BadPath(last.env)
    /\ last.outcome = "ValueError"

\* C5: a getLogger call that fails leaves the handlers of every logger as
\* they were.
C5_FailedCallAttachesNothing ==
    [][(CallStep /\ last'.outcome # "ok") => handlers' = handlers]_vars

\* A first call failed on the file, after its console handler was built, and
\* the logger has no sinks.
C5_Witness ==
    /\ last.op = "getLogger" /\ last.first /\ ~last.had
    /\ last.outcome = "OSError"
    /\ last.console_handler # NoHandler
    /\ handlers[last.name] = <<>>

\* C9: a getLogger call for a name that was returned before leaves the
\* handlers (their levels, their files, their positions) as they were.
C9_RepeatCallKeepsSinks ==
    [][(CallStep /\ last'.name \in returned) => handlers' = handlers]_vars

\* A repeat call under another console level, file level and file name
\* returned, and the logger's sinks are those of the first call.
C9_Witness ==
    /\ last.op = "getLogger" /\ ~last.first /\ last.outcome = "ok"
    /\ Len(handlers[last.name]) = 2
    /\ handlers[last.name][1].level # last.console_handler.level
    /\ handlers[last.name][2].level # last.file_handler.level
    /\ handlers[last.name][2].path # last.file_handler.path

\* C10: a getLogger call under a console level that is no known level
\* leaves the files as they were: none created, none truncated.
C10_BadConsoleLevelKeepsFiles ==
    [][(CallStep /\ BadConsoleLevel(last'.env)) =>
        /\ last'.outcome = "ValueError"
        /\ files' = files]_vars

\* A call failed on the console level and the log file of an earlier run
\* still has its content.
C10_Witness ==
    /\ last.op = "getLogger" /\ BadConsoleLevel(last.env)
    /\ ~BadPath(last.env)
    /\ last.outcome = "ValueError"
    /\ LogPath(last.env) \in DOMAIN files
    /\ files[LogPath(last.env)] = <<"old\n">>

----------------------------------------------------------------------------
(* Properties of SpecDefaults *)

IsAbsentOrEmpty(v) == v = Unset \/ v = S_empty

\* C6, as stated: a variable that is absent or empty is resolved to its
\* default, and getLogger succeeds with it.
C6_AbsentOrEmptyIsDefault ==
    last.op = "getLogger" =>
        /\ last.outcome = "ok"
        /\ last.console_handler.level =
              (IF IsAbsentOrEmpty(last.env.CONSOLE_LOG_LEVEL) THEN INFO
               ELSE nameToLevel(upper(last.env.CONSOLE_LOG_LEVEL)))
        /\ last.file_handler.level =
              (IF IsAbsentOrEmpty(last.env.FILE_LOG_LEVEL) THEN DEBUG
               ELSE nameToLevel(upper(last.env.FILE_LOG_LEVEL)))
        /\ last.opened =
              (IF IsAbsentOrEmpty(last.env.LOG_FILE_NAME) THEN <<S_app_log>>
               ELSE <<last.env.LOG_FILE_NAME>>)

\* C6, amended: a variable that is absent is resolved to its default; an
\* empty level raises ValueError, an empty directory is the working
\* directory, an empty file name makes the path a directory and the open
\* raises OSError.
C6_AbsentIsDefault ==
    last.op = "getLogger" =>
        LET e == last.env
        IN  IF e.CONSOLE_LOG_LEVEL = S_empty THEN last.outcome = "ValueError"
            ELSE IF e.LOG_FILE_NAME = S_empty THEN last.outcome = "OSError"
            ELSE IF e.FILE_LOG_LEVEL = S_empty THEN last.outcome = "ValueError"
            ELSE /\ last.outcome = "ok"
                 /\ last.console_handler.level =
                       (IF e.CONSOLE_LOG_LEVEL = Unset THEN INFO
                        ELSE nameToLevel(upper(e.CONSOLE_LOG_LEVEL)))
                 /\ last.file_handler.level =
                       (IF e.FILE_LOG_LEVEL = Unset THEN DEBUG
                        ELSE nameToLevel(upper(e.FILE_LOG_LEVEL)))
                 /\ last.opened =
                       (IF e.LOG_FILE_NAME = Unset THEN <<S_app_log>>
                        ELSE <<e.LOG_FILE_NAME>>)

\* With the console level and the directory absent and the other two set,
\* getLogger returned with INFO for the console and the file in the working
\* directory.
C6_Witness ==
    /\ last.op = "getLogger" /\ last.outcome = "ok"
    /\ last.env.CONSOLE_LOG_LEVEL = Unset /\ last.env.LOG_FILE_DIR = Unset
    /\ last.env.FILE_LOG_LEVEL = S_CRITICAL /\ last.env.LOG_FILE_NAME = S_b_log
    /\ last.console_handler.level = INFO
    /\ last.file_handler.level = CRITICAL
    /\ last.opened = <<S_b_log>>

----------------------------------------------------------------------------
(* Properties of SpecThreads *)

\* The files the file handlers of a logger write to.
FilePaths(hseq) ==
    {hseq[k].path : k \in {j \in 1..Len(hseq) : hseq[j].kind = "file"}}

\* Both threads called getLogger for the same name, both found no handler at
\* line 63, and both have returned.
BothSawNone ==
    /\ \A t \in Threads : thr[t].pc = "done" /\ ~thr[t].saw
    /\ thr[1].name = thr[2].name

\* C8: nothing keeps a thread from evaluating hasHandlers() while another
\* is between its own check and its addHandler calls; and when two threads
\* called getLogger for the same name and both found no handler, the logger
\* ends with two console and two file handlers, on the files the two
\* threads each opened and truncated.
C8_NoMutualExclusion ==
    /\ \A t \in Threads : thr[t].pc = "check" => ENABLED T_Check(t)
    /\ BothSawNone =>
          /\ CountKind(handlers[thr[1].name], "stream") = 2
          /\ CountKind(handlers[thr[1].name], "file") = 2
          /\ \A t \in Threads : thr[t].opened # NoPath
          /\ FilePaths(handlers[thr[1].name]) = {thr[1].opened, thr[2].opened}

\* Two threads raced on the same name under the same environment: the
\* logger has duplicate sinks and the one file was opened by both.
C8_Witness ==
    /\ BothSawNone
    /\ thr[1].opened = thr[2].opened /\ thr[1].opened # NoPath
    /\ CountKind(handlers[thr[1].name], "stream") = 2
    /\ CountKind(handlers[thr[1].name], "file") = 2

=====================
